---- MODULE Spec2Model ----
(***************************************************************************)
(* Testing Tools Portal (Streamlit): role-gated navigation (Home.py), the  *)
(* Tools page (app_pages/5_Tools.py) and its components: API tester, JSON  *)
(* diff, timestamp converter and the Excel screenshot batcher.             *)
(*                                                                         *)
(* Every Streamlit interaction re-runs the page script from the top, so    *)
(* each action below is one complete re-run triggered by one user action.  *)
(* Text is modelled as a sequence of one-character strings wherever the    *)
(* code inspects or rewrites characters (URLs, directory and sheet names). *)
(***************************************************************************)
EXTENDS Integers, Sequences, FiniteSets, TLC

VARIABLES
    \* ---- Home.py / 5_Tools.py ----
    user_role,        \* st.session_state.user_role
    navigation,       \* the page list handed to st.navigation on the last run
    current_page,     \* the page the user is on (0 = Home)
    tool_option,      \* the sidebar radio of the Tools page
    \* ---- api_tester.py ----
    request_history,  \* st.session_state.request_history
    click,            \* widget values of the last 'Send Request' click, or NoClick
    outbound,         \* the calls of requests.request made by the last run
    response_area,    \* what the last run rendered in the Response section
    network,          \* the outcome requests.request had in the last run
    history_panel,    \* [shown, more]: the Request History section
    \* ---- json_diff.py ----
    json_in,          \* the two parsed inputs <<obj1, obj2>>
    diff_out,         \* [state, paths]: result of the last Compare click
    \* ---- timestamp_converter.py ----
    ts_in,            \* [t, unit]: timestamp_input and timestamp_unit
    ts_dt,            \* the datetime shown by tab 1 / entered in tab 2
    ts_out,           \* [state, unit, value]: result of tab 2
    \* ---- excel_tool.py ----
    upload,           \* the file held by the upload widget (ZIP tree or images)
    excel_upload,     \* the workbook held by the 'Existing Excel File' widget
    session,          \* st.session_state fields of the Excel tool
    temp_dirs,        \* upload directories present under ~/.streamlit_temp
    next_uid,         \* stands for uuid4(): the next fresh directory id
    run,              \* record of the last 'Start Processing' run
    temp_files,       \* files present under ~/.streamlit_temp
    threads,          \* the delayed_delete threads started so far
    download_button,  \* output file whose download button is on the page
    downloaded,       \* output file whose download button was clicked
    last_click,       \* the interaction that triggered the last run
    \* ---- excel_tool.py, functions applied on their own ----
    resize_in,        \* [width, height, max_width, max_height, fixed_*]
    resize_out,       \* [state, raised, width, height]: resize_image's result
    clock,            \* time.time() in minutes since 00:00 of date 0
    temp_base_dir,    \* items [name, mtime] under ~/.streamlit_temp
    cleanup_record_file, \* {date} in .last_cleanup_date, or NoFile
    cleanup_log,      \* per date: in-window calls and cleanups executed
    cleanup_call,     \* arguments and outcome of the last check_and_cleanup
    excel_processor,  \* an ExcelProcessor whose methods are called directly
    sheet_call,       \* the last method call on excel_processor
    sanitize_in,      \* the name handed to sanitize_sheet_name
    sanitize_out      \* [state, name, again]: its result, and the result
                      \* of sanitizing that result

vars == <<user_role, navigation, current_page, tool_option,
          request_history, click, outbound, response_area,
          network, history_panel,
          json_in, diff_out, ts_in, ts_dt, ts_out,
          upload, excel_upload, session, temp_dirs, next_uid, run,
          temp_files, threads, download_button, downloaded, last_click,
          resize_in, resize_out,
          clock, temp_base_dir, cleanup_record_file, cleanup_log,
          cleanup_call, excel_processor, sheet_call,
          sanitize_in, sanitize_out>>

portalVars == <<user_role, navigation, current_page, tool_option>>
apiVars    == <<request_history, click, outbound, response_area,
                network, history_panel>>
diffVars   == <<json_in, diff_out>>
timeVars   == <<ts_in, ts_dt, ts_out>>
pageVars   == <<upload, excel_upload, session, temp_dirs, next_uid, run,
                temp_files, threads, download_button, downloaded, last_click>>
resizeVars == <<resize_in, resize_out>>
cleanVars  == <<clock, temp_base_dir, cleanup_record_file, cleanup_log,
                cleanup_call>>
sheetVars  == <<excel_processor, sheet_call>>
nameVars   == <<sanitize_in, sanitize_out>>
unitVars   == <<resizeVars, cleanVars, sheetVars, nameVars>>
excelVars  == <<pageVars, unitVars>>

----------------------------------------------------------------------------
(* Generic helpers *)

Range(s) == {s[i] : i \in 1..Len(s)}

Min(a, b) == IF a <= b THEN a ELSE b

Max(a, b) == IF a >= b THEN a ELSE b

SetMax(S) == CHOOSE x \in S : \A y \in S : y <= x

SetMin(S) == CHOOSE x \in S : \A y \in S : x <= y

\* sorted(list of ints): insertion of the least remaining element
RECURSIVE SortedInts(_)
SortedInts(S) ==
    IF S = {} THEN <<>>
    ELSE LET m == SetMin(S) IN <<m>> \o SortedInts(S \ {m})

None == "None"

\* Bounds
MaxHistory == 1

MaxDepth == 2

MaxLen == 1

MaxKeys == 1

MaxTs == 3

MaxTreeDepth == 2

MaxDirs == 2

MaxHeaderRows == 1

MaxSpacing == 1

MaxContentRows == 2

MaxUid == 5

MaxMore == 1

MaxSide == 4

MaxLimit == 3

\* Results of the timestamp converter are kept below this magnitude.
MaxValue == 2000000000

----------------------------------------------------------------------------
(* Home.py : roles and navigation *)

Roles == {"Manual Tester", "Automation Tester", "BA"}

ROLE_PERMISSIONS ==
    [r \in Roles |->
        CASE r = "Manual Tester"     -> <<1, 2, 5, 6>>
          [] r = "Automation Tester" -> <<2, 3, 5, 6>>
          [] r = "BA"                -> <<2, 4, 5, 6>>]

PAGE_INFO == 1..6

HomePage == 0

ToolsPage == 5

\* A Python value that may be None: [none |-> TRUE] or a wrapped list.
NoneValue == [none |-> TRUE, v |-> <<>>]

Some(x) == [none |-> FALSE, v |-> x]

\* Python truthiness of an optional list: None and [] are falsy.
Truthy(p) == ~p.none /\ p.v # <<>>

\* mutant: the role's permissions are ignored and every page is listed
build_navigation_all(role) ==
    IF role = None THEN NoneValue ELSE Some(SortedInts(PAGE_INFO))

build_navigation(role) ==
    IF role = None
    THEN NoneValue
    ELSE Some(SortedInts(Range(ROLE_PERMISSIONS[role]) \cap PAGE_INFO))

\* lines 205-214: pg = st.navigation([home_page] + pages) or [home_page]
pg(role) ==
    LET pages == build_navigation(role)
    IN  IF Truthy(pages)
        THEN <<HomePage>> \o pages.v
        ELSE <<HomePage>>

Tools == {"JSON Beautifier", "JSON Diff", "Timestamp Converter",
          "Excel Tool", "API Tester", "Tool Download"}

PortalInit ==
    /\ user_role = None
    /\ navigation = pg(None)
    /\ current_page = HomePage
    /\ tool_option = "JSON Beautifier"

\* A role button on the Home page: set the role, st.rerun() rebuilds the
\* navigation from the new role.
SelectRole(r) ==
    /\ current_page = HomePage
    /\ user_role' = r
    /\ navigation' = pg(r)
    /\ UNCHANGED <<current_page, tool_option>>

\* The switch-role button, rendered only while a role is selected.
SwitchRole ==
    /\ current_page = HomePage
    /\ user_role # None
    /\ user_role' = None
    /\ navigation' = pg(None)
    /\ UNCHANGED <<current_page, tool_option>>

\* The user picks an entry of the sidebar navigation; the re-run rebuilds
\* the navigation from the unchanged role.  A page script starts with its
\* widgets at their defaults.
Navigate(p) ==
    /\ p \in Range(navigation)
    /\ p # current_page
    /\ current_page' = p
    /\ navigation' = pg(user_role)
    /\ tool_option' = "JSON Beautifier"
    /\ UNCHANGED user_role

\* The sidebar radio of the Tools page.
SelectTool(t) ==
    /\ current_page = ToolsPage
    /\ t # tool_option
    /\ tool_option' = t
    /\ navigation' = pg(user_role)
    /\ UNCHANGED <<user_role, current_page>>

----------------------------------------------------------------------------
(* api_tester.py *)

Methods == {"GET", "POST", "PUT", "DELETE", "PATCH", "HEAD", "OPTIONS"}

BodyMethods == {"POST", "PUT", "PATCH"}

BodyTypes == {"None", "JSON", "Form Data", "Raw Text"}

\* Characters that may occur in a URL scheme (urllib.parse.scheme_chars),
\* restricted to the characters of the modelled URLs.
alpha == {"h", "x", "p"}

scheme_chars == alpha \cup {"+", "-", "."}

\* Index of the first occurrence of c in s, 0 when absent (str.find + 1).
RECURSIVE FindFrom(_, _, _)
FindFrom(s, c, i) ==
    IF i > Len(s) THEN 0
    ELSE IF s[i] \in c THEN i
    ELSE FindFrom(s, c, i + 1)

Find(s, c) == FindFrom(s, c, 1)

\* urllib.parse.urlparse: [ok, scheme, netloc]; ok = FALSE stands for the
\* ValueError("Invalid IPv6 URL") it raises on an unbalanced bracket.
urlparse(url) ==
    LET i == Find(url, {":"})
        has_scheme ==
            /\ i > 1
            /\ url[1] \in alpha
            /\ \A k \in 1..(i - 1) : url[k] \in scheme_chars
        scheme == IF has_scheme THEN SubSeq(url, 1, i - 1) ELSE <<>>
        rest == IF has_scheme THEN SubSeq(url, i + 1, Len(url)) ELSE url
        has_netloc == Len(rest) >= 2 /\ rest[1] = "/" /\ rest[2] = "/"
        after == IF has_netloc THEN SubSeq(rest, 3, Len(rest)) ELSE <<>>
        stop == Find(after, {"/", "?", "#"})
        netloc == IF ~has_netloc THEN <<>>
                  ELSE IF stop = 0 THEN after
                  ELSE SubSeq(after, 1, stop - 1)
        bad == ("[" \in Range(netloc)) # ("]" \in Range(netloc))
    IN  [ok |-> ~bad, scheme |-> scheme, netloc |-> netloc]

\* The URLs a user may type: empty, without scheme, scheme without host,
\* host without scheme, unbalanced IPv6 bracket, and a well-formed one.
URLs == { <<>>,
          <<"x">>,
          <<"h", ":", "x">>,
          <<"/", "/", "x">>,
          <<"h", ":", "/", "/", "[">>,
          <<"h", ":", "/", "/", "x", "/", "p">> }

\* The header dictionaries a user may enter (Simple or JSON mode).
HeaderSets == { {}, {<<"Content-Type", "application/json">>} }

\* Outcomes of requests.request: a response with a status code, or one of
\* the exceptions the handler distinguishes.
StatusCodes == {200, 404}

NetOutcomes == [kind : {"response"}, status : StatusCodes]
               \cup [kind : {"Timeout", "ConnectionError",
                             "RequestException", "Exception"},
                     status : {0}]

NoClick == [method |-> "", url |-> <<>>, headers |-> {},
            body_type |-> "", body_filled |-> FALSE]

NoNet == [kind |-> "none", status |-> 0]

HISTORY_SHOWN == 10

\* mutant: the section lists every entry
render_history_all(hist) == [shown |-> hist, more |-> 0]

\* Lines 411-420: the entries listed in the Request History section and
\* the number announced by '... and N more requests'.
render_history(hist) ==
    [shown |-> SubSeq(hist, 1, Min(HISTORY_SHOWN, Len(hist))),
     more |-> IF Len(hist) > HISTORY_SHOWN
              THEN Len(hist) - HISTORY_SHOWN ELSE 0]

ApiInit ==
    /\ request_history = <<>>
    /\ click = NoClick
    /\ outbound = <<>>
    /\ response_area = "info"
    /\ network = NoNet
    /\ history_panel = render_history(<<>>)

\* mutant: request_body is initialised before the method test
request_body_initialised(method, body_type, body_filled) ==
    IF method \in BodyMethods /\ body_type \in {"JSON", "Raw Text"} /\ body_filled
    THEN "set" ELSE "empty"

\* Lines 208-278: request_body is assigned only inside the branch for the
\* methods that carry a body.  "unbound" is the unassigned local variable.
request_body(method, body_type, body_filled) ==
    IF method \notin BodyMethods THEN "unbound"
    ELSE IF body_type \in {"JSON", "Raw Text"} /\ body_filled THEN "set"
    ELSE "empty"

\* Lines 310-329: the keyword arguments of requests.request.
request_kwargs(c) ==
    [method |-> c.method, url |-> c.url, headers |-> c.headers,
     payload |-> IF c.method \in BodyMethods /\ c.body_filled
                    /\ c.body_type # "None"
                 THEN c.body_type ELSE "none"]

\* mutant: a failed request is sent a second time
SendResultRetrying(c, net, hist) ==
    IF c.url = <<>> \/ ~urlparse(c.url).ok
       \/ urlparse(c.url).scheme = <<>> \/ urlparse(c.url).netloc = <<>>
       \/ request_body(c.method, c.body_type, c.body_filled) = "unbound"
    THEN [area |-> "Invalid URL format", sent |-> <<>>, hist |-> hist]
    ELSE IF net.kind = "response"
    THEN [area |-> "response", sent |-> <<request_kwargs(c)>>,
          hist |-> <<[method |-> c.method, url |-> c.url,
                      status_code |-> net.status]>> \o hist]
    ELSE [area |-> "Request failed",
          sent |-> <<request_kwargs(c), request_kwargs(c)>>, hist |-> hist]

\* Lines 288-406: the outcome of one run with send_button pressed, as
\* [area, sent, hist]: the message rendered, the requests issued and the
\* new history.
SendResult(c, net, hist) ==
    IF c.url = <<>>
    THEN [area |-> "Please enter a URL", sent |-> <<>>, hist |-> hist]
    ELSE LET parsed == urlparse(c.url) IN
    IF ~parsed.ok
    THEN [area |-> "URL validation error", sent |-> <<>>, hist |-> hist]
    ELSE IF parsed.scheme = <<>> \/ parsed.netloc = <<>>
    THEN [area |-> "Invalid URL format", sent |-> <<>>, hist |-> hist]
    ELSE IF request_body(c.method, c.body_type, c.body_filled) = "unbound"
    \* line 305 reads the unassigned local: UnboundLocalError, caught by
    \* the outer handler of line 402
    THEN [area |-> "URL validation error", sent |-> <<>>, hist |-> hist]
    ELSE LET req == request_kwargs(c) IN
    IF net.kind = "response"
    THEN [area |-> "response", sent |-> <<req>>,
          hist |-> <<[method |-> c.method, url |-> c.url,
                      status_code |-> net.status]>> \o hist]
    ELSE [area |-> CASE net.kind = "Timeout" -> "Request timeout"
                     [] net.kind = "ConnectionError" -> "Connection error"
                     [] net.kind = "RequestException" -> "Request failed"
                     [] OTHER -> "Unexpected error",
          sent |-> <<req>>, hist |-> hist]

ApiTesterShown == current_page = ToolsPage /\ tool_option = "API Tester"

\* 'Send Request' with the current widget values.
SendRequest(c, net) ==
    /\ ApiTesterShown
    /\ LET r == SendResult(c, net, request_history) IN
        /\ request_history' = r.hist
        /\ outbound' = r.sent
        /\ response_area' = r.area
        /\ network' = IF r.sent = <<>> THEN NoNet ELSE net
        /\ history_panel' = render_history(r.hist)
    /\ click' = c
    /\ navigation' = pg(user_role)
    /\ UNCHANGED <<user_role, current_page, tool_option>>

\* 'Clear History', rendered only while the history is non-empty; the
\* st.rerun() that follows renders the page without a pressed button.
ClearHistory ==
    /\ ApiTesterShown
    /\ request_history # <<>>
    /\ request_history' = <<>>
    /\ click' = NoClick
    /\ outbound' = <<>>
    /\ response_area' = "info"
    /\ network' = NoNet
    /\ history_panel' = render_history(<<>>)
    /\ navigation' = pg(user_role)
    /\ UNCHANGED <<user_role, current_page, tool_option>>

\* The body widgets: the body type and whether the body field is filled.
BodyInputs == { <<"None", FALSE>>, <<"JSON", TRUE>>,
                <<"Form Data", TRUE>>, <<"Raw Text", FALSE>> }

Clicks ==
    [method : Methods \ BodyMethods, url : URLs, headers : HeaderSets,
     body_type : {"None"}, body_filled : {FALSE}]
    \cup
    { [method |-> m, url |-> u, headers |-> h,
       body_type |-> b[1], body_filled |-> b[2]] :
         m \in BodyMethods, u \in URLs, h \in HeaderSets, b \in BodyInputs }

\* The outcomes requests.request can have for a click: none is drawn when
\* the run does not reach the call.
NetFor(c) ==
    IF SendResult(c, [kind |-> "response", status |-> 200], <<>>).sent = <<>>
    THEN {[kind |-> "Exception", status |-> 0]}
    ELSE NetOutcomes

\* The clicks of the portal specification: the widget defaults (GET) and a
\* POST, each with the default URL or an empty URL field.
PortalClicks ==
    { c \in Clicks : /\ c.method \in {"GET", "POST"}
                     /\ c.url \in {<<>>, <<"h", ":", "/", "/", "x", "/", "p">>}
                     /\ c.headers = {}
                     /\ c.body_type = "None" }

----------------------------------------------------------------------------
(* Components that take no step in a specification keep these values. *)

DiffIdle == json_in = <<>> /\ diff_out = [state |-> "idle", paths |-> <<>>]

TimeIdle ==
    /\ ts_in = [t |-> 0, unit |-> "Milliseconds"]
    /\ ts_dt = [set |-> FALSE, day |-> 0, hour |-> 0, minute |-> 0,
                second |-> 0, microsecond |-> 0]
    /\ ts_out = [state |-> "idle", unit |-> "Milliseconds", value |-> 0]

PageIdle ==
    /\ upload = [kind |-> "none", tree |-> {}]
    /\ excel_upload = [present |-> FALSE, sheets |-> <<>>]
    /\ session = [uploaded_files_dir |-> 0, excel_existing_file |-> FALSE,
                  last_output_file |-> 0]
    /\ temp_dirs = {}
    /\ next_uid = 1
    /\ run = [status |-> "none", errors |-> {},
              form |-> [header_rows |-> 0, image_spacing |-> 0,
                        hide_image_titles |-> FALSE,
                        use_existing_file |-> FALSE],
              root_name |-> <<>>, tree |-> {}, image_folders |-> <<>>,
              book |-> <<>>, sheets |-> <<>>, bad |-> {}]
    /\ temp_files = {}
    /\ threads = {}
    /\ download_button = 0
    /\ downloaded = 0
    /\ last_click = "none"

ResizeIdle ==
    /\ resize_in = [width |-> 1, height |-> 1, max_width |-> 1,
                    max_height |-> 1, fixed_width |-> 0, fixed_height |-> 0]
    /\ resize_out = [state |-> "idle", raised |-> FALSE,
                     width |-> 0, height |-> 0]

\* The record file is absent, or holds one date.
NoFile == {}

MaxDate == 2

NoCall ==
    [state |-> "idle", cleanup_hour |-> 0, cleanup_minute |-> 0,
     in_time_window |-> FALSE, nth |-> 0, returned |-> FALSE,
     executed |-> FALSE, deleted |-> {}, wrote |-> FALSE]

CleanIdle ==
    /\ clock = 0
    /\ temp_base_dir = {}
    /\ cleanup_record_file = NoFile
    /\ cleanup_log = [d \in 0..MaxDate |-> [in_window |-> 0, executed |-> 0]]
    /\ cleanup_call = NoCall

\* No ExcelProcessor has been constructed.
NoProcessor ==
    [header_rows |-> 0, spacing_rows |-> 0, show_titles |-> FALSE,
     respect_header_rows |-> FALSE, has_workbook |-> FALSE,
     sheets |-> <<>>, current_row |-> {}]

NoSheetCall ==
    [state |-> "idle", sheet_name |-> <<>>, resolved |-> <<>>, before |-> {}]

SheetIdle ==
    /\ excel_processor = NoProcessor
    /\ sheet_call = NoSheetCall

NoName == [state |-> "idle", name |-> <<>>, again |-> <<>>]

NameIdle ==
    /\ sanitize_in = <<>>
    /\ sanitize_out = NoName

UnitIdle == ResizeIdle /\ CleanIdle /\ SheetIdle /\ NameIdle

ExcelIdle == PageIdle /\ UnitIdle

----------------------------------------------------------------------------
(* The portal with the API tester: Home.py, 5_Tools.py, api_tester.py *)

Init == PortalInit /\ ApiInit /\ DiffIdle /\ TimeIdle /\ ExcelIdle

\* Leaving the API tester drops what the last run rendered; the history
\* lives in the session state and stays.
LeaveApiTester ==
    /\ click' = NoClick
    /\ outbound' = <<>>
    /\ response_area' = "info"
    /\ network' = NoNet
    /\ history_panel' = render_history(<<>>)
    /\ UNCHANGED request_history

Next ==
    \/ \E r \in Roles : SelectRole(r) /\ UNCHANGED apiVars
                        /\ UNCHANGED <<diffVars, timeVars, excelVars>>
    \/ SwitchRole /\ UNCHANGED apiVars
                  /\ UNCHANGED <<diffVars, timeVars, excelVars>>
    \/ \E p \in {HomePage} \cup PAGE_INFO :
          Navigate(p) /\ LeaveApiTester
                      /\ UNCHANGED <<diffVars, timeVars, excelVars>>
    \/ \E t \in Tools : SelectTool(t) /\ LeaveApiTester
                        /\ UNCHANGED <<diffVars, timeVars, excelVars>>
    \/ \E c \in PortalClicks : \E net \in NetFor(c) :
          /\ Len(request_history) < MaxHistory
          /\ SendRequest(c, net) /\ UNCHANGED <<diffVars, timeVars, excelVars>>
    \/ ClearHistory /\ UNCHANGED <<diffVars, timeVars, excelVars>>

Spec == Init /\ [][Next]_vars

----------------------------------------------------------------------------
(* The API tester alone, with every method, URL and body input. *)

InitApi ==
    /\ user_role = "Manual Tester"
    /\ navigation = pg("Manual Tester")
    /\ current_page = ToolsPage
    /\ tool_option = "API Tester"
    /\ ApiInit /\ DiffIdle /\ TimeIdle /\ ExcelIdle

NextApi ==
    \/ \E c \in Clicks : \E net \in NetFor(c) :
          /\ Len(request_history) < MaxHistory
          /\ SendRequest(c, net) /\ UNCHANGED <<diffVars, timeVars, excelVars>>
    \/ ClearHistory /\ UNCHANGED <<diffVars, timeVars, excelVars>>

SpecApi == InitApi /\ [][NextApi]_vars

----------------------------------------------------------------------------
(* The request history over long sequences of clicks. *)

\* A POST and a GET, each on a valid URL, an empty URL field and a URL
\* without scheme.
HistoryClicks ==
    { c \in Clicks : /\ c.method \in {"GET", "POST"}
                     /\ c.url \in {<<"h", ":", "/", "/", "x", "/", "p">>,
                                    <<>>, <<"x">>}
                     /\ c.headers = {}
                     /\ c.body_type = "None" }

NextHistory ==
    \/ \E c \in HistoryClicks : \E net \in NetFor(c) :
          /\ Len(request_history) < HISTORY_SHOWN + MaxMore
          /\ SendRequest(c, net) /\ UNCHANGED <<diffVars, timeVars, excelVars>>
    \/ ClearHistory /\ UNCHANGED <<diffVars, timeVars, excelVars>>

SpecHistory == InitApi /\ [][NextHistory]_vars

----------------------------------------------------------------------------
(* json_diff.py : find_diff_in_json *)

\* A parsed JSON value is [t, n, e, m]: t is the Python type json.loads
\* produced, n the scalar (bool as 0/1, int as itself), e the elements of
\* a list, m the <<key, value>> pairs of a dict.
JBool(b) == [t |-> "bool", n |-> IF b THEN 1 ELSE 0, e |-> <<>>, m |-> {}]

JInt(i) == [t |-> "int", n |-> i, e |-> <<>>, m |-> {}]

JList(elems) == [t |-> "list", n |-> 0, e |-> elems, m |-> {}]

JDict(pairs) == [t |-> "dict", n |-> 0, e |-> <<>>, m |-> pairs]

KeyNames == <<"a", "b", "c">>

JsonKeys == {KeyNames[i] : i \in 1..MaxKeys}

JsonScalars == {JBool(TRUE), JInt(1), JInt(2)}

\* All JSON values nested at most d containers deep.
RECURSIVE JsonValues(_)
JsonValues(d) ==
    IF d = 0 THEN JsonScalars
    ELSE LET sub == JsonValues(d - 1) IN
         JsonScalars
         \cup {JList(l) : l \in UNION {[1..n -> sub] : n \in 0..MaxLen}}
         \cup UNION { {JDict({<<k, f[k]>> : k \in K}) : f \in [K -> sub]} :
                        K \in SUBSET JsonKeys }

keys(obj) == {p[1] : p \in obj.m}

item(obj, k) == (CHOOSE p \in obj.m : p[1] = k)[2]

\* Python's == on parsed JSON: bool is a subclass of int, so True == 1;
\* lists and dicts compare element by element with ==.
RECURSIVE PyEq(_, _)
PyEq(a, b) ==
    CASE a.t \in {"bool", "int"} /\ b.t \in {"bool", "int"} -> a.n = b.n
      [] a.t = "list" /\ b.t = "list" ->
            /\ Len(a.e) = Len(b.e)
            /\ \A i \in 1..Len(a.e) : PyEq(a.e[i], b.e[i])
      [] a.t = "dict" /\ b.t = "dict" ->
            /\ keys(a) = keys(b)
            /\ \A k \in keys(a) : PyEq(item(a, k), item(b, k))
      [] OTHER -> FALSE

\* mutant: the type test of line 54 is dropped
RECURSIVE find_diff_untyped(_, _, _, _)
RECURSIVE find_diff_in_json(_, _, _, _)
RECURSIVE DiffKeys(_, _, _, _, _)
RECURSIVE DiffItems(_, _, _, _, _)
RECURSIVE DiffItemsShared(_, _, _, _, _)

\* Lines 60-67: the loop over all_keys, visited in the order ks.
DiffKeys(obj1, obj2, path, ks, order) ==
    IF ks = <<>> THEN <<>>
    ELSE LET key == Head(ks)
             current_path == IF path # "" THEN path \o "." \o key ELSE key
             here ==
                IF key \notin keys(obj1) /\ key \notin keys(obj2) THEN <<>>
                ELSE IF key \notin keys(obj1)
                THEN <<current_path \o " [added]">>
                ELSE IF key \notin keys(obj2)
                THEN <<current_path \o " [deleted]">>
                ELSE IF ~PyEq(item(obj1, key), item(obj2, key))
                THEN find_diff_in_json(item(obj1, key), item(obj2, key),
                                       current_path, order)
                ELSE <<>>
         IN here \o DiffKeys(obj1, obj2, path, Tail(ks), order)

\* mutant: only the indices both arrays have are visited
DiffItemsShared(obj1, obj2, path, i, order) ==
    IF i >= Min(Len(obj1.e), Len(obj2.e)) THEN <<>>
    ELSE LET current_path == path \o "[" \o ToString(i) \o "]"
             here ==
                IF ~PyEq(obj1.e[i + 1], obj2.e[i + 1])
                THEN find_diff_in_json(obj1.e[i + 1], obj2.e[i + 1],
                                       current_path, order)
                ELSE <<>>
         IN here \o DiffItemsShared(obj1, obj2, path, i + 1, order)

\* Lines 69-76: the loop over range(max(len(obj1), len(obj2))), from the
\* 0-based index i.
DiffItems(obj1, obj2, path, i, order) ==
    IF i >= Max(Len(obj1.e), Len(obj2.e)) THEN <<>>
    ELSE LET current_path == path \o "[" \o ToString(i) \o "]"
             here ==
                IF i >= Len(obj1.e) THEN <<current_path \o " [added]">>
                ELSE IF i >= Len(obj2.e) THEN <<current_path \o " [deleted]">>
                ELSE IF ~PyEq(obj1.e[i + 1], obj2.e[i + 1])
                THEN find_diff_in_json(obj1.e[i + 1], obj2.e[i + 1],
                                       current_path, order)
                ELSE <<>>
         IN here \o DiffItems(obj1, obj2, path, i + 1, order)

find_diff_untyped(obj1, obj2, path, order) ==
    IF obj1.t = "dict" /\ obj2.t = "dict"
    THEN DiffKeys(obj1, obj2, path, order, order)
    ELSE IF obj1.t = "list" /\ obj2.t = "list"
    THEN DiffItems(obj1, obj2, path, 0, order)
    ELSE IF ~PyEq(obj1, obj2) THEN <<path>> ELSE <<>>

\* Lines 50-81.  order is the iteration order of the set all_keys.
find_diff_in_json(obj1, obj2, path, order) ==
    IF obj1.t # obj2.t THEN <<path>>
    ELSE IF obj1.t = "dict" /\ obj2.t = "dict"
    THEN DiffKeys(obj1, obj2, path, order, order)
    ELSE IF obj1.t = "list" /\ obj2.t = "list"
    THEN DiffItems(obj1, obj2, path, 0, order)
    ELSE IF ~PyEq(obj1, obj2) THEN <<path>> ELSE <<>>

\* The orders in which a Python set of the keys may be iterated.
KeyOrders ==
    {o \in [1..Cardinality(JsonKeys) -> JsonKeys] : Range(o) = JsonKeys}

InitDiff ==
    /\ json_in \in JsonValues(MaxDepth) \X JsonValues(MaxDepth)
    /\ diff_out = [state |-> "idle", paths |-> <<>>]
    /\ PortalInit /\ ApiInit /\ TimeIdle /\ ExcelIdle

\* 'Compare Differences' (lines 35-83) on the two parsed inputs.
Compare(order) ==
    /\ diff_out.state = "idle"
    /\ diff_out' = [state |-> "done",
                    paths |-> find_diff_in_json(json_in[1], json_in[2],
                                                "", order)]
    /\ UNCHANGED json_in

NextDiff ==
    \E order \in KeyOrders :
        Compare(order) /\ UNCHANGED <<portalVars, apiVars, timeVars, excelVars>>

SpecDiff == InitDiff /\ [][NextDiff]_vars

----------------------------------------------------------------------------
(* timestamp_converter.py *)

Units == {"Seconds", "Milliseconds", "Microseconds"}

MICRO == 1000000

\* Lines 37-42 and 76-79: how many of the unit make one second.
PerSecond(unit) ==
    CASE unit = "Milliseconds" -> 1000
      [] unit = "Microseconds" -> MICRO
      [] OTHER -> 1

\* Lines 37-44: timestamp_input / PerSecond seconds since the epoch, as the
\* datetime (day number, time of day, microsecond) fromtimestamp returns.
\* The local zone is taken to be UTC.
fromtimestamp(t, unit) ==
    LET secs == t \div PerSecond(unit)
        of_day == secs % 86400
    IN  [set |-> TRUE,
         day |-> secs \div 86400,
         hour |-> of_day \div 3600,
         minute |-> (of_day % 3600) \div 60,
         second |-> of_day % 60,
         microsecond |-> (t % PerSecond(unit)) * (MICRO \div PerSecond(unit))]

\* The whole seconds of dt.timestamp(), rounded towards minus infinity.
timestamp_floor(dt) ==
    dt.day * 86400 + dt.hour * 3600 + dt.minute * 60 + dt.second

\* int(dt.timestamp()): truncation of the float towards zero.
int_timestamp(dt) ==
    IF timestamp_floor(dt) < 0 /\ dt.microsecond > 0
    THEN timestamp_floor(dt) + 1
    ELSE timestamp_floor(dt)

\* mutant: the result is taken one second late
to_timestamp_late(dt, unit) ==
    (int_timestamp(dt) + 1) * PerSecond(unit)

\* Lines 73-79: int(dt.timestamp()) scaled to the output unit.
to_timestamp(dt, unit) ==
    int_timestamp(dt) * PerSecond(unit)

\* Timestamps around the epoch, around whole seconds, minutes and days.
TimestampInputs ==
    {k * m + r : k \in (-MaxTs)..MaxTs,
                 m \in {1, 500, 1000, 60000, MICRO, 86400},
                 r \in {0, 1}}

InitTime ==
    /\ ts_in \in [t : TimestampInputs, unit : Units]
    /\ ts_dt = [set |-> FALSE, day |-> 0, hour |-> 0, minute |-> 0,
                second |-> 0, microsecond |-> 0]
    /\ ts_out = [state |-> "idle", unit |-> "Milliseconds", value |-> 0]
    /\ PortalInit /\ ApiInit /\ DiffIdle /\ ExcelIdle

\* Tab 1, 'Convert' (key ts_to_dt): the datetime is displayed.
ConvertToDateTime ==
    /\ ~ts_dt.set
    /\ ts_dt' = fromtimestamp(ts_in.t, ts_in.unit)
    /\ UNCHANGED <<ts_in, ts_out>>

\* Tab 2, 'Convert' (key dt_to_ts) with the displayed datetime entered in
\* the date and time inputs and the output unit chosen.
ConvertToTimestamp(unit) ==
    /\ ts_dt.set
    /\ ts_out.state = "idle"
    /\ timestamp_floor(ts_dt) \in (-(MaxValue \div PerSecond(unit)) + 1)
                                 ..((MaxValue \div PerSecond(unit)) - 1)
    /\ ts_out' = [state |-> "done", unit |-> unit,
                  value |-> to_timestamp(ts_dt, unit)]
    /\ UNCHANGED <<ts_in, ts_dt>>

NextTime ==
    \/ ConvertToDateTime
         /\ UNCHANGED <<portalVars, apiVars, diffVars, excelVars>>
    \/ \E unit \in Units :
         ConvertToTimestamp(unit)
         /\ UNCHANGED <<portalVars, apiVars, diffVars, excelVars>>

SpecTime == InitTime /\ [][NextTime]_vars

----------------------------------------------------------------------------
(* excel_tool.py : names, directories and find_image_folders *)

\* The characters of the modelled names in ASCII order, for sorting.
CharOrder == <<" ", "*", ".", "/", "0", "1", "2", "3", "4", ":", "?",
               "A", "C", "D", "G", "M", "N", "O", "P", "S", "X",
               "[", "]", "_",
               "a", "b", "c", "d", "e", "g", "h", "i", "m", "n", "o",
               "p", "r", "s", "t", "v", "x">>

Ord(c) == CHOOSE i \in 1..Len(CharOrder) : CharOrder[i] = c

\* str.lower() on one character.
LowerChar(c) ==
    CASE c = "A" -> "a" [] c = "C" -> "c" [] c = "D" -> "d"
      [] c = "G" -> "g" [] c = "M" -> "m" [] c = "N" -> "n"
      [] c = "O" -> "o" [] c = "P" -> "p" [] c = "S" -> "s"
      [] c = "X" -> "x" [] OTHER -> c

lower(name) == [i \in 1..Len(name) |-> LowerChar(name[i])]

\* Python's < on strings.
RECURSIVE StrLess(_, _)
StrLess(a, b) ==
    IF b = <<>> THEN FALSE
    ELSE IF a = <<>> THEN TRUE
    ELSE IF a[1] # b[1] THEN Ord(a[1]) < Ord(b[1])
    ELSE StrLess(Tail(a), Tail(b))

\* list.sort(key=...) of a set of <<key, item>> pairs with distinct keys.
RECURSIVE SortPairs(_)
SortPairs(S) ==
    IF S = {} THEN <<>>
    ELSE LET m == CHOOSE x \in S :
                    \A y \in S \ {x} : StrLess(x[1], y[1])
         IN <<m[2]>> \o SortPairs(S \ {m})

SortByKey(S, key(_)) == SortPairs({<<key(x), x>> : x \in S})

SUPPORTED_IMAGE_FORMATS ==
    { <<".", "p", "n", "g">>, <<".", "j", "p", "g">>,
      <<".", "j", "p", "e", "g">>, <<".", "g", "i", "f">>,
      <<".", "b", "m", "p">>, <<".", "t", "i", "f", "f">>,
      <<".", "w", "e", "b", "p">> }

default_ignore_dirs ==
    { <<"_", "m", "a", "c", "o", "s", "x">>, <<"_", "_", "m", "a", "c", "o", "s", "x">>,
      <<".", "d", "s", "_", "s", "t", "o", "r", "e">>,
      <<".", "g", "i", "t">>, <<".", "s", "v", "n">>,
      <<"t", "h", "u", "m", "b", "s", ".", "d", "b">> }

\* A directory tree is a set of directories [path, files]: path is the
\* sequence of directory names below the root (<<>> is the root), files
\* the set of [stem, suffix] file names directly inside.
DirNames == { <<"a">>, <<"A">>, <<"_", "_", "M", "A", "C", "O", "S", "X">> }

PNG1 == [stem |-> <<"1">>, suffix |-> <<".", "p", "n", "g">>]

PNG2 == [stem |-> <<"2">>, suffix |-> <<".", "P", "N", "G">>]

TXT == [stem |-> <<"n">>, suffix |-> <<".", "t", "x", "t">>]

FileSets == { {}, {PNG1, PNG2}, {TXT} }

Parent(path) == SubSeq(path, 1, Len(path) - 1)

AllPaths == UNION {[1..n -> DirNames] : n \in 1..MaxTreeDepth}

\* The sets of at most n directories below the root that contain the
\* parent of each of their members.
RECURSIVE Shapes(_)
Shapes(n) ==
    IF n = 0 THEN {{}}
    ELSE LET less == Shapes(n - 1) IN
         less \cup UNION { { S \cup {q} :
                               q \in {r \in AllPaths :
                                        Parent(r) \in S \cup {<<>>}} } :
                           S \in less }

Trees ==
    UNION { { {[path |-> q, files |-> f[q]] : q \in S \cup {<<>>}} :
                f \in [S \cup {<<>>} -> FileSets] } :
            S \in Shapes(MaxDirs) }

dirs(tree) == {d.path : d \in tree}

files_of(tree, path) == (CHOOSE d \in tree : d.path = path).files

file_name(f) == f.stem \o f.suffix

\* Path.name of a directory: its last component, the root's own name for
\* the root.
dir_name(root_name, path) ==
    IF path = <<>> THEN root_name ELSE path[Len(path)]

\* Lines 210-219.
get_image_files(tree, directory) ==
    IF directory \notin dirs(tree) THEN <<>>
    ELSE SortByKey({f \in files_of(tree, directory) :
                      lower(f.suffix) \in SUPPORTED_IMAGE_FORMATS},
                   file_name)

\* Lines 221-231.
get_subdirectories(tree, directory) ==
    IF directory \notin dirs(tree) THEN <<>>
    ELSE SortByKey({q \in dirs(tree) : q # <<>> /\ Parent(q) = directory},
                   LAMBDA q : q[Len(q)])

\* str(path) below the common root.
RECURSIVE path_str(_)
path_str(path) ==
    IF path = <<>> THEN <<>>
    ELSE path_str(Parent(path)) \o <<"/">> \o path[Len(path)]

RECURSIVE scan_directory(_, _, _, _)
RECURSIVE ScanSubdirs(_, _, _, _)

\* Lines 263-265: the recursive calls for the sub-directories, in order.
ScanSubdirs(tree, root_name, subdirs, ignore_dirs) ==
    IF subdirs = <<>> THEN <<>>
    ELSE (IF lower(dir_name(root_name, Head(subdirs))) \notin ignore_dirs
          THEN scan_directory(tree, root_name, Head(subdirs), ignore_dirs)
          ELSE <<>>)
         \o ScanSubdirs(tree, root_name, Tail(subdirs), ignore_dirs)

\* mutant: a folder counts as a leaf whatever its sub-directories hold
scan_directory_all(tree, root_name, directory, ignore_dirs) ==
    IF lower(dir_name(root_name, directory)) \in ignore_dirs THEN <<>>
    ELSE ScanSubdirs(tree, root_name, get_subdirectories(tree, directory),
                     ignore_dirs)
         \o (IF get_image_files(tree, directory) # <<>>
             THEN <<directory>> ELSE <<>>)

\* Lines 249-273: _scan_directory, returning what it appends to
\* image_folders.
scan_directory(tree, root_name, directory, ignore_dirs) ==
    IF lower(dir_name(root_name, directory)) \in ignore_dirs THEN <<>>
    ELSE LET image_files == get_image_files(tree, directory)
             subdirs == get_subdirectories(tree, directory)
             has_image_subdirs ==
                \E i \in 1..Len(subdirs) :
                   /\ lower(dir_name(root_name, subdirs[i])) \notin ignore_dirs
                   /\ get_image_files(tree, subdirs[i]) # <<>>
         IN ScanSubdirs(tree, root_name, subdirs, ignore_dirs)
            \o (IF image_files # <<>> /\ ~has_image_subdirs
                THEN <<directory>> ELSE <<>>)

\* Lines 233-279.
find_image_folders(tree, root_name) ==
    SortByKey(Range(scan_directory(tree, root_name, <<>>,
                                   default_ignore_dirs)),
              path_str)

----------------------------------------------------------------------------
(* excel_tool.py : sanitize_sheet_name, ImageProcessor, ExcelProcessor *)

DEFAULT_header_rows == 3

DEFAULT_spacing_rows == 2

sheet_name_max_length == 31

invalid_chars == {"\\", "/", "*", "?", ":", "[", "]"}

Whitespace == {" "}

\* str.strip()
RECURSIVE lstrip(_)
lstrip(name) ==
    IF name # <<>> /\ name[1] \in Whitespace THEN lstrip(Tail(name)) ELSE name

RECURSIVE rstrip(_)
rstrip(name) ==
    IF name # <<>> /\ name[Len(name)] \in Whitespace
    THEN rstrip(SubSeq(name, 1, Len(name) - 1)) ELSE name

strip(name) == rstrip(lstrip(name))

\* mutant: the name is cut to max_length after the final strip
sanitize_sheet_name_cut_last(name) ==
    LET replaced == [i \in 1..Len(name) |->
                        IF name[i] \in invalid_chars THEN "_" ELSE name[i]]
        named == IF strip(replaced) = <<>>
                 THEN <<"S", "h", "e", "e", "t">> ELSE strip(replaced)
    IN  IF Len(named) > sheet_name_max_length
        THEN SubSeq(named, 1, sheet_name_max_length)
        ELSE named

\* Lines 281-291.
sanitize_sheet_name(name) ==
    LET replaced == [i \in 1..Len(name) |->
                        IF name[i] \in invalid_chars THEN "_" ELSE name[i]]
        cut == IF Len(replaced) > sheet_name_max_length
               THEN SubSeq(replaced, 1, sheet_name_max_length)
               ELSE replaced
        named == IF strip(cut) = <<>> THEN <<"S", "h", "e", "e", "t">> ELSE cut
    IN  strip(named)

\* A worksheet is [title, cells, images]: cells are the column-A cells
\* [row, value], images the pictures in insertion order, each with its
\* anchor row and the row of its title (0 when it has none).
OldValue == [kind |-> "old", idx |-> 0, stem |-> <<>>]

TitleValue(idx, stem) == [kind |-> "title", idx |-> idx, stem |-> stem]

NewSheet(title) == [title |-> title, cells |-> {}, images |-> <<>>]

\* The row cursors: a dict from sheet name to row, as <<name, row>> pairs.
cursor_has(current_row, name) == \E c \in current_row : c[1] = name

cursor_get(current_row, name, default) ==
    IF cursor_has(current_row, name)
    THEN (CHOOSE c \in current_row : c[1] = name)[2]
    ELSE default

cursor_put(current_row, name, row) ==
    {c \in current_row : c[1] # name} \cup {<<name, row>>}

\* Python's `x or default` on an int: 0 is falsy.
OrDefault(x, default) == IF x = 0 THEN default ELSE x

\* mutant: the given value is kept even when it is 0
KeepGiven(x, default) == x

\* Lines 359-366.
ExcelProcessor(header_rows, spacing_rows, show_titles, respect_header_rows) ==
    [header_rows |-> OrDefault(header_rows, DEFAULT_header_rows),
     spacing_rows |-> OrDefault(spacing_rows, DEFAULT_spacing_rows),
     show_titles |-> show_titles,
     respect_header_rows |-> respect_header_rows,
     has_workbook |-> FALSE,
     sheets |-> <<>>,
     current_row |-> {}]

\* Lines 368-373: a new workbook with its default sheet removed.
create_workbook(p) == [p EXCEPT !.has_workbook = TRUE, !.sheets = <<>>]

sheetnames(p) == [i \in 1..Len(p.sheets) |-> p.sheets[i].title]

\* openpyxl's max_row: the last row that holds a cell, 1 for an empty sheet.
max_row(sheet) ==
    IF sheet.cells = {} THEN 1 ELSE SetMax({c.row : c \in sheet.cells})

\* Lines 416-421 and 473-478: search the rows max_row down to
\* max(1, max_row - 5) + 1 for content; the for-else falls back to the
\* header rows.
RECURSIVE scan_rows(_, _, _, _)
scan_rows(sheet, row, stop, header_rows) ==
    IF row <= stop THEN header_rows + 1
    ELSE IF \E c \in sheet.cells : c.row = row THEN row + 1
    ELSE scan_rows(sheet, row - 1, stop, header_rows)

row_after_content(sheet, header_rows) ==
    scan_rows(sheet, max_row(sheet), Max(1, max_row(sheet) - 5), header_rows)

\* Lines 408-423: the cursor of every loaded sheet.
RECURSIVE init_cursors(_, _, _)
init_cursors(p, i, current_row) ==
    IF i > Len(p.sheets) THEN current_row
    ELSE LET sheet == p.sheets[i]
             row == IF p.respect_header_rows
                    THEN p.header_rows + 1
                    ELSE row_after_content(sheet, p.header_rows)
         IN init_cursors(p, i + 1,
                IF cursor_has(current_row, sheet.title) THEN current_row
                ELSE cursor_put(current_row, sheet.title, row))

\* Lines 375-427, for an .xlsx file holding the sheets of book.
load_workbook(p, book) ==
    LET loaded == [p EXCEPT !.has_workbook = TRUE, !.sheets = book]
    IN  [loaded EXCEPT !.current_row = init_cursors(loaded, 1, p.current_row)]

\* Lines 447-455: the first sheet whose name matches case-insensitively,
\* as its index (0 stands for None).
find_sheet_by_name(p, target_name) ==
    IF ~p.has_workbook THEN 0
    ELSE LET hits == {i \in 1..Len(p.sheets) :
                        lower(p.sheets[i].title) = lower(target_name)}
         IN IF hits = {} THEN 0 ELSE SetMin(hits)

\* Lines 429-445: [p, name], the processor afterwards and the name returned.
get_or_create_sheet(p, sheet_name) ==
    LET q == IF ~p.has_workbook THEN create_workbook(p) ELSE p
        clean_name == sanitize_sheet_name(sheet_name)
        existing_sheet == find_sheet_by_name(q, clean_name)
    IN  IF existing_sheet # 0
        THEN [p |-> q, name |-> q.sheets[existing_sheet].title]
        ELSE [p |-> [q EXCEPT
                       !.sheets = Append(q.sheets, NewSheet(clean_name)),
                       !.current_row = cursor_put(q.current_row, clean_name,
                                                  q.header_rows + 1)],
              name |-> clean_name]

\* Lines 457-526.  resize_ok tells whether resize_image returned or raised.
add_image_to_sheet(p, sheet_name, resize_ok, image_title) ==
    LET i == find_sheet_by_name(p, sheet_name) IN
    IF ~p.has_workbook \/ i = 0 THEN p
    ELSE
    LET sheet == p.sheets[i]
        actual_sheet_name == sheet.title
        cursors == IF cursor_has(p.current_row, actual_sheet_name)
                   THEN p.current_row
                   ELSE cursor_put(p.current_row, actual_sheet_name,
                                   row_after_content(sheet, p.header_rows))
        current_row == cursor_get(cursors, actual_sheet_name,
                                  p.header_rows + 1)
        titled == p.show_titles
        image_row == IF titled THEN current_row + 1 ELSE current_row
        cells == IF titled
                 THEN {c \in sheet.cells : c.row # current_row}
                      \cup {[row |-> current_row, value |-> image_title]}
                 ELSE sheet.cells
        image == [anchor |-> image_row,
                  title_row |-> IF titled THEN current_row ELSE 0,
                  title |-> image_title]
    IN  IF ~resize_ok
        THEN [p EXCEPT !.current_row = cursors]
        ELSE [p EXCEPT
                !.sheets[i] = [sheet EXCEPT !.cells = cells,
                                            !.images = Append(@, image)],
                !.current_row = cursor_put(cursors, sheet_name,
                                           image_row + 1 + p.spacing_rows)]

----------------------------------------------------------------------------
(* excel_tool.py : render_excel_tool *)

NoUpload == [kind |-> "none", tree |-> {}]

NoExcel == [present |-> FALSE, sheets |-> <<>>]

\* uuid4().hex[:8] for the n-th directory created.
hex8(n) == <<"0", "0", "0", "0", "0", "0", "0", CharOrder[4 + n]>>

\* Lines 178 and 199: the name of the directory created for an upload.
root_name_of(kind, uid) ==
    (IF kind = "zip" THEN <<"e", "x", "t", "r", "a", "c", "t", "e", "d", "_">> ELSE <<"i", "m", "a", "g", "e", "s", "_">>) \o hex8(uid)

NoForm == [header_rows |-> 0, image_spacing |-> 0,
           hide_image_titles |-> FALSE, use_existing_file |-> FALSE]

\* The widget values a click can carry (lines 838-943).
Forms == [header_rows : 0..MaxHeaderRows, image_spacing : 0..MaxSpacing,
          hide_image_titles : BOOLEAN, use_existing_file : BOOLEAN]

NoRun == [status |-> "none", errors |-> {}, form |-> NoForm,
          root_name |-> <<>>, tree |-> {}, image_folders |-> <<>>,
          book |-> <<>>, sheets |-> <<>>, bad |-> {}]

\* Existing workbooks a user may upload: one sheet whose first rows hold
\* content.
ExistingBooks ==
    { << [title |-> t,
          cells |-> {[row |-> r, value |-> OldValue] : r \in 1..n},
          images |-> <<>>] >> :
        t \in {<<"A">>, <<"D">>}, n \in {MaxContentRows} }

ExcelInit == ExcelIdle

\* Lines 757-835: every run of the page extracts the ZIP (or saves the
\* images) held by the upload widget into a fresh directory and records
\* that directory in the session.
Preamble(up, sess, tdirs, uid) ==
    IF up.kind = "none"
    THEN [session |-> sess, temp_dirs |-> tdirs, next_uid |-> uid]
    ELSE [session |-> [sess EXCEPT !.uploaded_files_dir = uid],
          temp_dirs |-> tdirs \cup {uid},
          next_uid |-> uid + 1]

\* Lines 845-862: in append mode the uploaded workbook is written to the
\* temporary directory and recorded in the session.
SaveExcel(sess, use_existing_file, xl) ==
    IF use_existing_file /\ xl.present
    THEN [sess EXCEPT !.excel_existing_file = TRUE]
    ELSE sess

\* Lines 1121-1126 and 1211-1216: the images of one folder, from the
\* 1-based position idx on.
RECURSIVE ProcessImagesUntilFailure(_, _, _, _, _, _)
\* mutant: the first failing image ends the loop over the folder
ProcessImagesUntilFailure(p, actual_sheet_name, folder, image_files, idx, bad) ==
    IF idx > Len(image_files) \/ <<folder, image_files[idx]>> \in bad THEN p
    ELSE ProcessImagesUntilFailure(
            add_image_to_sheet(p, actual_sheet_name, TRUE,
                               TitleValue(idx, image_files[idx].stem)),
            actual_sheet_name, folder, image_files, idx + 1, bad)

RECURSIVE ProcessImages(_, _, _, _, _, _)
ProcessImages(p, actual_sheet_name, folder, image_files, idx, bad) ==
    IF idx > Len(image_files) THEN p
    ELSE ProcessImages(
            add_image_to_sheet(p, actual_sheet_name,
                               <<folder, image_files[idx]>> \notin bad,
                               TitleValue(idx, image_files[idx].stem)),
            actual_sheet_name, folder, image_files, idx + 1, bad)

\* Lines 1107-1129: one sheet per folder, named after the folder.
RECURSIVE ProcessFolders(_, _, _, _, _, _)
ProcessFolders(p, tree, root_name, image_folders, k, bad) ==
    IF k > Len(image_folders) THEN p
    ELSE LET folder == image_folders[k]
             image_files == get_image_files(tree, folder)
             got == get_or_create_sheet(p, dir_name(root_name, folder))
         IN ProcessFolders(
                IF image_files # <<>>
                THEN ProcessImages(got.p, got.name, folder, image_files, 1, bad)
                ELSE p,
                tree, root_name, image_folders, k + 1, bad)

\* Lines 1060-1252: the processing of a validated click, as
\* [status, image_folders, sheets]; status "saved" when a workbook was saved.
ProcessUpload(form, tree, root_name, book, bad) ==
    LET fresh == ExcelProcessor(form.header_rows, form.image_spacing,
                                ~form.hide_image_titles, TRUE)
        processor == IF form.use_existing_file
                     THEN load_workbook(fresh, book)
                     ELSE create_workbook(fresh)
        image_folders == find_image_folders(tree, root_name)
        image_files == get_image_files(tree, <<>>)
    IN  IF image_folders # <<>>
        THEN [status |-> "saved", image_folders |-> image_folders,
              sheets |-> ProcessFolders(processor, tree, root_name,
                                        image_folders, 1, bad).sheets]
        ELSE IF image_files = <<>>
        THEN [status |-> "no_images", image_folders |-> image_folders,
              sheets |-> processor.sheets]
        ELSE LET got == get_or_create_sheet(processor, <<"S", "c", "r", "e", "e", "n", "s", "h", "o", "t", "s">>)
             IN [status |-> "saved", image_folders |-> image_folders,
                 sheets |-> ProcessImages(got.p, got.name, <<>>,
                                          image_files, 1, bad).sheets]

\* mutant: validation stops at the first error
ErrorsFirstOnly(sess, tdirs, form) ==
    IF sess.uploaded_files_dir = 0 \/ sess.uploaded_files_dir \notin tdirs
    THEN {"Please upload files first"}
    ELSE IF form.use_existing_file /\ ~sess.excel_existing_file
    THEN {"Please upload an existing Excel file"}
    ELSE {}

\* Lines 1041-1052: the validation errors of a click.
Errors(sess, tdirs, form) ==
    (IF sess.uploaded_files_dir = 0 \/ sess.uploaded_files_dir \notin tdirs
     THEN {"Please upload files first"} ELSE {})
    \cup
    (IF form.use_existing_file /\ ~sess.excel_existing_file
     THEN {"Please upload an existing Excel file"} ELSE {})

\* The images of a tree whose resize may fail: none, or the copies of the
\* first image.
BadSets(tree) ==
    LET copies == {<<d.path, PNG1>> : d \in {e \in tree : PNG1 \in e.files}}
    IN {{}, copies}

\* Line 857: the uploaded workbook is written under its own name.
ExcelFile == [kind |-> "excel", id |-> 0]

\* Lines 1138 and 1227: the output file, named after the time of the run.
OutputFile(n) == [kind |-> "output", id |-> n]

\* Lines 845-859 on the files of the temporary directory.
WriteExcel(files, use_existing_file, xl) ==
    IF use_existing_file /\ xl.present THEN files \cup {ExcelFile} ELSE files

\* st.button and st.download_button return True only in the run that the
\* click on that very button triggered.
button(label, trigger) == trigger = label

\* The user puts a ZIP archive into the upload widget.
UploadZip(tree) ==
    /\ upload = NoUpload
    /\ next_uid <= MaxUid
    /\ upload' = [kind |-> "zip", tree |-> tree]
    /\ LET pre == Preamble(upload', session, temp_dirs, next_uid) IN
        /\ session' = pre.session
        /\ temp_dirs' = pre.temp_dirs
        /\ next_uid' = pre.next_uid
    /\ download_button' = 0
    /\ last_click' = "upload"
    /\ UNCHANGED <<excel_upload, run, temp_files, threads, downloaded>>

\* The user puts image files into the 'Multiple Image Files' widget.
UploadImages(files) ==
    /\ upload = NoUpload
    /\ next_uid <= MaxUid
    /\ upload' = [kind |-> "images",
                  tree |-> {[path |-> <<>>, files |-> files]}]
    /\ LET pre == Preamble(upload', session, temp_dirs, next_uid) IN
        /\ session' = pre.session
        /\ temp_dirs' = pre.temp_dirs
        /\ next_uid' = pre.next_uid
    /\ download_button' = 0
    /\ last_click' = "upload"
    /\ UNCHANGED <<excel_upload, run, temp_files, threads, downloaded>>

\* The user ticks 'Use existing Excel file' and uploads a workbook.
UploadExcel(book) ==
    /\ excel_upload = NoExcel
    /\ next_uid <= MaxUid
    /\ excel_upload' = [present |-> TRUE, sheets |-> book]
    /\ LET pre == Preamble(upload, session, temp_dirs, next_uid) IN
        /\ session' = SaveExcel(pre.session, TRUE, excel_upload')
        /\ temp_dirs' = pre.temp_dirs
        /\ next_uid' = pre.next_uid
    /\ temp_files' = WriteExcel(temp_files, TRUE, excel_upload')
    /\ download_button' = 0
    /\ last_click' = "upload"
    /\ UNCHANGED <<upload, run, threads, downloaded>>

\* One run of the page with process_button pressed (lines 757-862 and
\* 1040-1290), with the widget values form; bad are the images whose
\* resize fails.
ProcessClick(form, bad) ==
    /\ next_uid <= MaxUid
    /\ LET pre == Preamble(upload, session, temp_dirs, next_uid)
           sess == SaveExcel(pre.session, form.use_existing_file, excel_upload)
           errors == Errors(sess, pre.temp_dirs, form)
           root_name == root_name_of(upload.kind, sess.uploaded_files_dir)
           book == IF form.use_existing_file THEN excel_upload.sheets ELSE <<>>
           files == WriteExcel(temp_files, form.use_existing_file, excel_upload)
           process_button == button("process", "process")
           download_clicked == button("download", "process")
       IN
       /\ process_button
       /\ next_uid' = pre.next_uid
       /\ IF errors # {}
          THEN /\ run' = [NoRun EXCEPT !.status = "errors",
                                       !.errors = errors, !.form = form]
               /\ session' = sess
               /\ temp_dirs' = pre.temp_dirs
               /\ temp_files' = files
               /\ download_button' = 0
               /\ threads' = threads
          ELSE LET out == ProcessUpload(form, upload.tree, root_name, book, bad)
               IN
               /\ run' = [status |-> out.status, errors |-> {}, form |-> form,
                          root_name |-> root_name, tree |-> upload.tree,
                          image_folders |-> out.image_folders,
                          book |-> book, sheets |-> out.sheets, bad |-> bad]
               /\ IF out.status = "saved"
                  THEN /\ session' = [sess EXCEPT
                                        !.last_output_file = pre.next_uid]
                       /\ temp_dirs' = pre.temp_dirs \ {sess.uploaded_files_dir}
                       /\ temp_files' = files \cup {OutputFile(pre.next_uid)}
                       /\ download_button' = pre.next_uid
                       /\ threads' =
                            IF download_clicked
                            THEN threads \cup {[file |-> pre.next_uid,
                                                state |-> "sleeping"]}
                            ELSE threads
                  ELSE /\ session' = sess
                       /\ temp_dirs' = pre.temp_dirs
                       /\ temp_files' = files
                       /\ download_button' = 0
                       /\ threads' = threads
    /\ last_click' = "process"
    /\ UNCHANGED <<upload, excel_upload, downloaded>>

\* The first 'Start Processing' click of a session.
StartProcessing(form, bad) ==
    /\ run.status = "none"
    /\ ProcessClick(form, bad)

InitExcel == ExcelInit /\ PortalInit /\ ApiInit /\ DiffIdle /\ TimeIdle

NextExcel ==
    \/ \E tree \in Trees :
         UploadZip(tree) /\ UNCHANGED <<portalVars, apiVars, diffVars, timeVars, unitVars>>
    \/ \E files \in {{PNG1}, {PNG1, PNG2}} :
         UploadImages(files)
         /\ UNCHANGED <<portalVars, apiVars, diffVars, timeVars, unitVars>>
    \/ \E book \in ExistingBooks :
         UploadExcel(book)
         /\ UNCHANGED <<portalVars, apiVars, diffVars, timeVars, unitVars>>
    \/ \E form \in Forms : \E bad \in BadSets(upload.tree) :
         StartProcessing(form, bad)
         /\ UNCHANGED <<portalVars, apiVars, diffVars, timeVars, unitVars>>

SpecExcel == InitExcel /\ [][NextExcel]_vars

----------------------------------------------------------------------------
(* excel_tool.py : download, Clear, Exit and the delayed_delete thread *)

\* Lines 963-991 and 1006-1034: the directory and the files that the
\* session records are deleted, as [temp_dirs, temp_files].
CleanUp(sess, tdirs, files) ==
    [temp_dirs |-> IF sess.uploaded_files_dir # 0
                   THEN tdirs \ {sess.uploaded_files_dir} ELSE tdirs,
     temp_files |-> (files \ (IF sess.excel_existing_file
                              THEN {ExcelFile} ELSE {}))
                    \ (IF sess.last_output_file # 0
                       THEN {OutputFile(sess.last_output_file)} ELSE {})]

\* The user clicks 'Download Excel File': the page is re-run, the
\* 'Start Processing' button returns False in that run, and the block that
\* holds the download button and the thread start (1040-1290) is skipped.
ClickDownload ==
    /\ download_button # 0
    /\ next_uid <= MaxUid
    /\ LET pre == Preamble(upload, session, temp_dirs, next_uid)
           use_existing_file == run.form.use_existing_file
           process_button == button("process", "download")
           download_clicked == process_button /\ button("download", "download")
       IN
       /\ session' = SaveExcel(pre.session, use_existing_file, excel_upload)
       /\ temp_dirs' = pre.temp_dirs
       /\ next_uid' = pre.next_uid
       /\ temp_files' = WriteExcel(temp_files, use_existing_file, excel_upload)
       /\ threads' = IF download_clicked
                     THEN threads \cup {[file |-> download_button,
                                         state |-> "sleeping"]}
                     ELSE threads
    /\ downloaded' = download_button
    /\ download_button' = 0
    /\ last_click' = "download"
    /\ UNCHANGED <<upload, excel_upload, run>>

\* The user clicks 'Clear' (lines 960-1000): the run of the click, then the
\* run started by st.rerun().
Clear(use_existing_file) ==
    /\ last_click # "none"
    /\ next_uid + 1 <= MaxUid
    /\ LET pre == Preamble(upload, session, temp_dirs, next_uid)
           sess == SaveExcel(pre.session, use_existing_file, excel_upload)
           files == WriteExcel(temp_files, use_existing_file, excel_upload)
           cleaned == CleanUp(sess, pre.temp_dirs, files)
           cleared == [uploaded_files_dir |-> 0, excel_existing_file |-> FALSE,
                       last_output_file |-> 0]
           again == Preamble(upload, cleared, cleaned.temp_dirs, pre.next_uid)
       IN
       /\ session' = SaveExcel(again.session, use_existing_file, excel_upload)
       /\ temp_dirs' = again.temp_dirs
       /\ next_uid' = again.next_uid
       /\ temp_files' = WriteExcel(cleaned.temp_files, use_existing_file,
                                   excel_upload)
    /\ download_button' = 0
    /\ last_click' = "clear"
    /\ UNCHANGED <<upload, excel_upload, run, threads, downloaded>>

\* The user clicks 'Exit' (lines 1003-1037): the same deletions, then
\* st.stop(); the session state is left as it is.
Exit(use_existing_file) ==
    /\ last_click # "none"
    /\ next_uid <= MaxUid
    /\ LET pre == Preamble(upload, session, temp_dirs, next_uid)
           sess == SaveExcel(pre.session, use_existing_file, excel_upload)
           files == WriteExcel(temp_files, use_existing_file, excel_upload)
           cleaned == CleanUp(sess, pre.temp_dirs, files)
       IN
       /\ session' = sess
       /\ temp_dirs' = cleaned.temp_dirs
       /\ next_uid' = pre.next_uid
       /\ temp_files' = cleaned.temp_files
    /\ download_button' = 0
    /\ last_click' = "exit"
    /\ UNCHANGED <<upload, excel_upload, run, threads, downloaded>>

\* Lines 1182-1189: a started thread wakes up after the delay and deletes
\* its file.
delayed_delete ==
    \E t \in threads :
        /\ t.state = "sleeping"
        /\ temp_files' = temp_files \ {OutputFile(t.file)}
        /\ threads' = (threads \ {t}) \cup {[t EXCEPT !.state = "done"]}
        /\ UNCHANGED <<upload, excel_upload, session, temp_dirs, next_uid,
                       run, download_button, downloaded, last_click,
                       unitVars>>

\* Uploads that exercise each branch of the processing: images in the
\* root, images in one folder, images in two folders whose names differ
\* in case only, no image at all.
FileTrees ==
    { {[path |-> <<>>, files |-> {PNG1, PNG2}]},
      {[path |-> <<>>, files |-> {}],
       [path |-> << <<"a">> >>, files |-> {PNG1, PNG2}]},
      {[path |-> <<>>, files |-> {}],
       [path |-> << <<"a">> >>, files |-> {PNG1, PNG2}],
       [path |-> << <<"A">> >>, files |-> {PNG1, PNG2}]},
      {[path |-> <<>>, files |-> {TXT}]} }

FileForms == {f \in Forms : f.header_rows = 1 /\ f.image_spacing = 1}

NextFiles ==
    \/ \E tree \in FileTrees :
         UploadZip(tree) /\ UNCHANGED <<portalVars, apiVars, diffVars, timeVars, unitVars>>
    \/ \E book \in ExistingBooks :
         UploadExcel(book)
         /\ UNCHANGED <<portalVars, apiVars, diffVars, timeVars, unitVars>>
    \/ \E form \in FileForms :
         StartProcessing(form, {})
         /\ UNCHANGED <<portalVars, apiVars, diffVars, timeVars, unitVars>>
    \/ ClickDownload /\ UNCHANGED <<portalVars, apiVars, diffVars, timeVars, unitVars>>
    \/ \E use_existing_file \in BOOLEAN :
         Clear(use_existing_file)
         /\ UNCHANGED <<portalVars, apiVars, diffVars, timeVars, unitVars>>
    \/ \E use_existing_file \in BOOLEAN :
         Exit(use_existing_file)
         /\ UNCHANGED <<portalVars, apiVars, diffVars, timeVars, unitVars>>

\* The batch runs of the page on the uploads of FileTrees, with every
\* form value and with images whose resize fails.
NextBatch ==
    \/ \E tree \in FileTrees :
         UploadZip(tree)
         /\ UNCHANGED <<portalVars, apiVars, diffVars, timeVars, unitVars>>
    \/ \E files \in {{PNG1}, {PNG1, PNG2}} :
         UploadImages(files)
         /\ UNCHANGED <<portalVars, apiVars, diffVars, timeVars, unitVars>>
    \/ \E book \in ExistingBooks :
         UploadExcel(book)
         /\ UNCHANGED <<portalVars, apiVars, diffVars, timeVars, unitVars>>
    \/ \E form \in Forms : \E bad \in BadSets(upload.tree) :
         StartProcessing(form, bad)
         /\ UNCHANGED <<portalVars, apiVars, diffVars, timeVars, unitVars>>

SpecBatch == InitExcel /\ [][NextBatch]_vars

\* Uploads and any number of 'Start Processing' clicks.
NextValidate ==
    \/ \E tree \in FileTrees :
         UploadZip(tree)
         /\ UNCHANGED <<portalVars, apiVars, diffVars, timeVars, unitVars>>
    \/ \E book \in ExistingBooks :
         UploadExcel(book)
         /\ UNCHANGED <<portalVars, apiVars, diffVars, timeVars, unitVars>>
    \/ \E form \in FileForms :
         ProcessClick(form, {})
         /\ UNCHANGED <<portalVars, apiVars, diffVars, timeVars, unitVars>>

SpecValidate == InitExcel /\ [][NextValidate]_vars

\* The page runs are the steps of the session; a delayed_delete thread is
\* a daemon of the running server and is scheduled once it was started by
\* a page run (lines 1191-1193, 1281-1283).
SpecFiles ==
    /\ InitExcel
    /\ [][NextFiles]_vars
    /\ WF_vars(delayed_delete
               /\ UNCHANGED <<portalVars, apiVars, diffVars, timeVars, unitVars>>)

----------------------------------------------------------------------------
(* excel_tool.py : ImageProcessor.resize_image *)

\* int(n * (num / den)) in double precision, for 0 < num < den.  When the
\* exact product is a whole number k the rounded quotient may make the
\* product fall just below k, and int() then yields k - 1; otherwise the
\* product is far from a whole number and int() yields its floor.
IntScaled(n, num, den) ==
    IF (n * num) % den = 0
    THEN {(n * num) \div den, (n * num) \div den - 1}
    ELSE {(n * num) \div den}

\* Image.resize raises ValueError for a size with a side below 1.
Resized(new_width, new_height) ==
    [raised |-> new_width < 1 \/ new_height < 1,
     width |-> new_width, height |-> new_height]

\* Lines 302-355: the outcomes of resize_image for an image of size
\* width x height; 0 stands for a fixed size that is not set.
resize_image(width, height, max_width, max_height, fixed_width, fixed_height) ==
    IF fixed_width # 0 /\ fixed_height # 0
    THEN {Resized(fixed_width, fixed_height)}
    ELSE IF fixed_width # 0
    THEN {Resized(fixed_width, new_height) :
            new_height \in IF fixed_width < width
                           THEN IntScaled(height, fixed_width, width)
                           ELSE {(height * fixed_width) \div width}}
    ELSE IF fixed_height # 0
    THEN {Resized(new_width, fixed_height) :
            new_width \in IF fixed_height < height
                          THEN IntScaled(width, fixed_height, height)
                          ELSE {(width * fixed_height) \div height}}
    ELSE LET w_over == width > max_width
             h_over == height > max_height
             \* scale = min(scale_w, scale_h, 1) as the fraction num / den
             by_width == w_over /\ (~h_over
                                    \/ max_width * height <= max_height * width)
             num == IF by_width THEN max_width ELSE max_height
             den == IF by_width THEN width ELSE height
         IN IF w_over \/ h_over
            THEN {Resized(new_width, new_height) :
                    new_width \in IntScaled(width, num, den),
                    new_height \in IntScaled(height, num, den)}
            ELSE {[raised |-> FALSE, width |-> width, height |-> height]}

ResizeInputs ==
    [width : 1..MaxSide, height : 1..MaxSide,
     max_width : 1..MaxLimit, max_height : 1..MaxLimit,
     fixed_width : {0, MaxLimit}, fixed_height : {0, MaxLimit}]

InitResize ==
    /\ PortalInit /\ ApiInit /\ DiffIdle /\ TimeIdle
    /\ PageIdle /\ CleanIdle /\ SheetIdle /\ NameIdle
    /\ resize_in \in ResizeInputs
    /\ resize_out = [state |-> "idle", raised |-> FALSE,
                     width |-> 0, height |-> 0]

\* One call of resize_image on the image and settings of resize_in.
Resize ==
    /\ resize_out.state = "idle"
    /\ \E r \in resize_image(resize_in.width, resize_in.height,
                             resize_in.max_width, resize_in.max_height,
                             resize_in.fixed_width, resize_in.fixed_height) :
         resize_out' = [state |-> "done", raised |-> r.raised,
                        width |-> r.width, height |-> r.height]
    /\ UNCHANGED <<portalVars, apiVars, diffVars, timeVars, pageVars,
                   resize_in, cleanVars, sheetVars, nameVars>>

NextResize == Resize

SpecResize == InitResize /\ [][NextResize]_vars

----------------------------------------------------------------------------
(* excel_tool.py: check_and_cleanup and cleanup_old_temp_files *)

time_window == 5

DEFAULT_max_age_hours == 24

SECONDS_PER_HOUR == 3600

MINUTES_PER_DAY == 1440

\* time.localtime and time.strftime("%Y-%m-%d") of a clock value.  A date is
\* written as its number: the format is one-to-one on dates.
tm_hour(t) == (t % MINUTES_PER_DAY) \div 60
tm_min(t)  == t % 60
date_str(t) == t \div MINUTES_PER_DAY

\* Lines 52-98: the items left by cleanup_old_temp_files and the items it
\* deleted; an item goes when age > max_age_seconds, in seconds.
cleanup_old_temp_files(items, current_time, max_age_hours) ==
    LET max_age_seconds == max_age_hours * SECONDS_PER_HOUR
        old == {i \in items :
                  (current_time - i.mtime) * 60 > max_age_seconds}
    IN  [items |-> items \ old, deleted |-> {i.name : i \in old}]

\* Lines 122-147: in_time_window.
in_time_window(cleanup_hour, cleanup_minute, current_hour, current_minute) ==
    LET minute_start == IF cleanup_minute >= time_window
                        THEN cleanup_minute - time_window
                        ELSE 60 - (time_window - cleanup_minute)
        minute_end   == cleanup_minute
    IN  IF cleanup_minute >= time_window
        THEN /\ current_hour = cleanup_hour
             /\ minute_start <= current_minute
             /\ current_minute <= minute_end
        ELSE \/ current_hour = cleanup_hour /\ current_minute <= minute_end
             \/ /\ current_hour = (cleanup_hour - 1) % 24
                /\ current_minute >= minute_start

\* mutant: the recorded date is not looked at
check_and_cleanup_every_call(items, record, now, cleanup_hour, cleanup_minute, max_age_hours) ==
    LET in_window == in_time_window(cleanup_hour, cleanup_minute,
                                    tm_hour(now), tm_min(now))
        cleaned   == cleanup_old_temp_files(items, now, max_age_hours)
    IN  IF in_window
        THEN [in_time_window |-> in_window, returned |-> TRUE,
              executed |-> TRUE, items |-> cleaned.items,
              deleted |-> cleaned.deleted, record |-> {date_str(now)},
              wrote |-> TRUE]
        ELSE [in_time_window |-> in_window, returned |-> FALSE,
              executed |-> FALSE, items |-> items, deleted |-> {},
              record |-> record, wrote |-> FALSE]

\* Lines 100-172: check_and_cleanup at time now, on the items of the
\* directory and the content of the record file (both read and written
\* without error).
check_and_cleanup(items, record, now, cleanup_hour, cleanup_minute, max_age_hours) ==
    LET current_date_str == date_str(now)
        in_window == in_time_window(cleanup_hour, cleanup_minute,
                                    tm_hour(now), tm_min(now))
        last_cleanup_date == record
        cleaned   == cleanup_old_temp_files(items, now, max_age_hours)
    IN  IF in_window /\ last_cleanup_date # {current_date_str}
        THEN [in_time_window |-> in_window, returned |-> TRUE,
              executed |-> TRUE, items |-> cleaned.items,
              deleted |-> cleaned.deleted, record |-> {current_date_str},
              wrote |-> TRUE]
        ELSE [in_time_window |-> in_window, returned |-> FALSE,
              executed |-> FALSE, items |-> items, deleted |-> {},
              record |-> record, wrote |-> FALSE]

\* The moments at which calls are made: the minutes around the hour
\* boundary, at the hours around midnight, on each date.
CallHours == {0, 23}

CallMinutes == {0, 5, 54, 58}

Times ==
    {d * MINUTES_PER_DAY + h * 60 + m :
        d \in 0..MaxDate, h \in CallHours, m \in CallMinutes}

\* Cleanup times: the one the page passes (line 753), one whose window
\* crosses midnight and one with cleanup_minute = time_window.
CleanupTimes == {<<23, 59>>, <<0, 3>>, <<23, 5>>}

InitCleanup ==
    /\ PortalInit /\ ApiInit /\ DiffIdle /\ TimeIdle
    /\ PageIdle /\ ResizeIdle /\ SheetIdle /\ NameIdle
    /\ CleanIdle

\* Lines 757-835 write the upload into the directory: an item whose
\* modification time is the current time.
CreateItem ==
    /\ temp_base_dir = {}
    /\ temp_base_dir' = {[name |-> "upload", mtime |-> clock]}
    /\ UNCHANGED <<clock, cleanup_record_file, cleanup_log, cleanup_call>>

\* One call of check_and_cleanup at a moment not before the last one.
CheckAndCleanup(now, cleanup_hour, cleanup_minute) ==
    LET r == check_and_cleanup(temp_base_dir, cleanup_record_file, now,
                               cleanup_hour, cleanup_minute,
                               DEFAULT_max_age_hours)
        d == date_str(now)
        n == Min(2, cleanup_log[d].in_window
                      + (IF r.in_time_window THEN 1 ELSE 0))
    IN  /\ now >= clock
        /\ clock' = now
        /\ temp_base_dir' = r.items
        /\ cleanup_record_file' = r.record
        /\ cleanup_log' =
             [cleanup_log EXCEPT
                ![d] = [in_window |-> n,
                        executed |-> Min(2, @.executed
                                      + (IF r.executed THEN 1 ELSE 0))]]
        /\ cleanup_call' =
             [state |-> "done", cleanup_hour |-> cleanup_hour,
              cleanup_minute |-> cleanup_minute,
              in_time_window |-> r.in_time_window,
              nth |-> IF r.in_time_window THEN n ELSE 0,
              returned |-> r.returned, executed |-> r.executed,
              deleted |-> r.deleted, wrote |-> r.wrote]

NextCleanup ==
    \/ CreateItem
         /\ UNCHANGED <<portalVars, apiVars, diffVars, timeVars, pageVars,
                        resizeVars, sheetVars, nameVars>>
    \/ \E now \in Times : \E c \in CleanupTimes :
         CheckAndCleanup(now, c[1], c[2])
         /\ UNCHANGED <<portalVars, apiVars, diffVars, timeVars, pageVars,
                        resizeVars, sheetVars, nameVars>>

SpecCleanup == InitCleanup /\ [][NextCleanup]_vars

----------------------------------------------------------------------------
(* excel_tool.py: the methods of ExcelProcessor called one by one *)

MaxImages == 2

\* Sheet names handed to the methods: two that differ in case only, and
\* a third.
SheetNames == {<<"a">>, <<"A">>, <<"D">>}

InitSheet ==
    /\ PortalInit /\ ApiInit /\ DiffIdle /\ TimeIdle
    /\ PageIdle /\ ResizeIdle /\ CleanIdle /\ NameIdle
    /\ excel_processor \in {ExcelProcessor(h, sp, t, FALSE) :
                        h \in 0..MaxHeaderRows, sp \in 0..MaxSpacing,
                        t \in BOOLEAN}
    /\ sheet_call = NoSheetCall

\* The title of the sheet a name resolves to (<<>> for None).
ResolvedName(p, sheet_name) ==
    IF find_sheet_by_name(p, sheet_name) = 0 THEN <<>>
    ELSE p.sheets[find_sheet_by_name(p, sheet_name)].title

\* Lines 429-445.
GetOrCreateSheet(sheet_name) ==
    /\ excel_processor' = get_or_create_sheet(excel_processor, sheet_name).p
    /\ sheet_call' = [state |-> "created", sheet_name |-> sheet_name,
                      resolved |-> get_or_create_sheet(excel_processor,
                                                       sheet_name).name,
                      before |-> excel_processor.current_row]
    /\ UNCHANGED <<resizeVars, cleanVars, nameVars>>

\* Lines 457-526, for an image that resize_image accepts or rejects.
AddImageToSheet(sheet_name, resize_ok) ==
    LET i == find_sheet_by_name(excel_processor, sheet_name)
        n == IF i = 0 THEN 0 ELSE Len(excel_processor.sheets[i].images)
    IN  /\ n < MaxImages
        /\ excel_processor' =
             add_image_to_sheet(excel_processor, sheet_name, resize_ok,
                                TitleValue(n + 1, <<"1">>))
        /\ sheet_call' = [state |-> IF resize_ok /\ i # 0
                                    THEN "added" ELSE "failed",
                          sheet_name |-> sheet_name,
                          resolved |-> ResolvedName(excel_processor, sheet_name),
                          before |-> excel_processor.current_row]
        /\ UNCHANGED <<resizeVars, cleanVars, nameVars>>

NextSheet ==
    \/ \E name \in SheetNames :
         GetOrCreateSheet(name)
         /\ UNCHANGED <<portalVars, apiVars, diffVars, timeVars, pageVars>>
    \/ \E name \in SheetNames : \E resize_ok \in BOOLEAN :
         AddImageToSheet(name, resize_ok)
         /\ UNCHANGED <<portalVars, apiVars, diffVars, timeVars, pageVars>>

SpecSheet == InitSheet /\ [][NextSheet]_vars

----------------------------------------------------------------------------
(* excel_tool.py: sanitize_sheet_name applied on its own *)

MaxEdge == 2

\* The characters names are made of: a letter, a blank and two of the
\* characters that are replaced.
NameChars == {"a", " ", "/", "["}

Fill(c, n) == [i \in 1..n |-> c]

Edges == UNION {[1..n -> NameChars] : n \in 0..MaxEdge}

\* Names: a run of one character, of a length from 0 up to beyond
\* max_length, between two short strings.
Names ==
    {head \o Fill(c, n) \o tail :
        head \in Edges, tail \in Edges, c \in NameChars,
        n \in {0} \cup ((sheet_name_max_length - 3)..(sheet_name_max_length + 1))}

InitSanitize ==
    /\ PortalInit /\ ApiInit /\ DiffIdle /\ TimeIdle
    /\ PageIdle /\ ResizeIdle /\ CleanIdle /\ SheetIdle
    /\ sanitize_in \in Names
    /\ sanitize_out = NoName

\* sanitize_sheet_name(sanitize_in).
Sanitize ==
    /\ sanitize_out.state = "idle"
    /\ sanitize_out' = [state |-> "done",
                        name |-> sanitize_sheet_name(sanitize_in),
                        again |-> <<>>]
    /\ UNCHANGED <<portalVars, apiVars, diffVars, timeVars, pageVars,
                   resizeVars, cleanVars, sheetVars, sanitize_in>>

\* sanitize_sheet_name applied to the result of the first call.
SanitizeAgain ==
    /\ sanitize_out.state = "done"
    /\ sanitize_out' = [sanitize_out EXCEPT
                          !.state = "twice",
                          !.again = sanitize_sheet_name(sanitize_out.name)]
    /\ UNCHANGED <<portalVars, apiVars, diffVars, timeVars, pageVars,
                   resizeVars, cleanVars, sheetVars, sanitize_in>>

NextSanitize == Sanitize \/ SanitizeAgain

SpecSanitize == InitSanitize /\ [][NextSanitize]_vars

----------------------------------------------------------------------------
(* Properties *)

\* The pages a role may open, in ascending page number, written out from
\* the permission table alone.
RECURSIVE Ascending(_)
Ascending(s) ==
    \/ Len(s) <= 1
    \/ s[1] < s[2] /\ Ascending(Tail(s))

\* C3: after any sequence of role selections and 'switch role' clicks the
\* navigation offered is the Home page followed by exactly the pages of
\* ROLE_PERMISSIONS for the selected role in ascending page number, and
\* the Home page alone while no role is selected.
C3_RoleGatedNavigation ==
    /\ Len(navigation) >= 1
    /\ navigation[1] = HomePage
    /\ user_role = None => navigation = <<HomePage>>
    /\ user_role # None =>
         /\ Range(Tail(navigation)) = Range(ROLE_PERMISSIONS[user_role])
         /\ Len(navigation) = 1 + Len(ROLE_PERMISSIONS[user_role])
         /\ Ascending(Tail(navigation))

\* C3 witness: the BA role was selected and its own page (4) was opened
\* from the offered navigation while a request had already been recorded
\* in the session.
C3_Witness ==
    /\ user_role = "BA"
    /\ current_page = 4
    /\ navigation = <<0, 2, 4, 5, 6>>
    /\ request_history # <<>>

\* A URL that has a scheme and a host.
HasSchemeAndHost(url) ==
    LET parsed == urlparse(url)
    IN  parsed.ok /\ parsed.scheme # <<>> /\ parsed.netloc # <<>>

\* C4 (as claimed): for every selectable method and every URL with a scheme
\* and a host, a 'Send Request' click issues exactly one outbound request
\* carrying the chosen method, URL and headers, and never ends in a
\* 'URL validation error'.
C4_SendIssuesOneRequest ==
    (click # NoClick /\ HasSchemeAndHost(click.url)) =>
        /\ Len(outbound) = 1
        /\ outbound[1].method = click.method
        /\ outbound[1].url = click.url
        /\ outbound[1].headers = click.headers
        /\ response_area # "URL validation error"

\* C1 (as claimed): find_diff_in_json returns no path when both inputs are
\* the same JSON value, and at least one path whenever the second input
\* differs from the first at any depth (key added or removed, array
\* lengthened or shortened, value of another JSON type, scalar changed).
C1_DiffEmptyIffSame ==
    diff_out.state = "done" =>
        ((json_in[1] = json_in[2]) <=> (diff_out.paths = <<>>))

\* C5 (as claimed): for each unit and every integer timestamp t in that
\* unit, converting t to a datetime and that datetime back with the same
\* output unit yields t.
C5_TimestampRoundTrip ==
    (ts_out.state = "done" /\ ts_out.unit = ts_in.unit) =>
        ts_out.value = ts_in.t

\* The first row an image occupies: its title row, or its own row when
\* titles are hidden.
FirstRow(image) ==
    IF image.title_row # 0 THEN image.title_row ELSE image.anchor

\* The directories of tree strictly below folder that are not inside an
\* ignored system folder.
Descendants(tree, folder) ==
    {q \in dirs(tree) :
        /\ Len(q) > Len(folder)
        /\ SubSeq(q, 1, Len(folder)) = folder
        /\ \A k \in (Len(folder) + 1)..Len(q) :
              lower(q[k]) \notin default_ignore_dirs}

\* C2: processing an upload into a new workbook creates exactly one
\* worksheet per folder returned by find_image_folders, also when folder
\* names coincide or differ only in letter case; when no images are found
\* no worksheet is created and no output file is saved.
C2_OneSheetPerImageFolder ==
    (run.status \in {"saved", "no_images"} /\ ~run.form.use_existing_file)
    => /\ Len(run.sheets) = Len(run.image_folders)
       /\ run.image_folders = <<>>
            => run.status = "no_images" /\ session.last_output_file = 0

\* C6: find_image_folders returns only leaf image folders: each returned
\* folder directly contains an image and has no descendant directory, at
\* any depth and outside the ignored system folders, that contains images.
C6_OnlyLeafImageFolders ==
    run.status \in {"saved", "no_images"}
    => \A k \in 1..Len(run.image_folders) :
         LET folder == run.image_folders[k] IN
         /\ get_image_files(run.tree, folder) # <<>>
         /\ \A q \in Descendants(run.tree, folder) :
              get_image_files(run.tree, q) = <<>>

\* C7: when all images sit in the root of the upload (a ZIP without
\* subfolders, or 'Multiple Image Files') and every image is readable,
\* processing places them in a single worksheet named "Screenshots".
C7_RootImagesGoToScreenshots ==
    (run.status = "saved" /\ dirs(run.tree) = {<<>>} /\ run.bad = {})
    => LET holding == {i \in 1..Len(run.sheets) :
                          run.sheets[i].images # <<>>}
       IN /\ Cardinality(holding) = 1
          /\ \A i \in holding : run.sheets[i].title = <<"S", "c", "r", "e", "e", "n", "s", "h", "o", "t", "s">>

\* C8: for every 'Header Rows' value h >= 0, 0 included, the first image
\* or title written to a newly created worksheet is placed at row h + 1.
C8_FirstRowAfterHeader ==
    run.status = "saved"
    => \A i \in (Len(run.book) + 1)..Len(run.sheets) :
         run.sheets[i].images # <<>>
         => FirstRow(run.sheets[i].images[1]) = run.form.header_rows + 1

\* C9: for every 'Image Spacing' value s >= 0, 0 included, exactly s empty
\* rows lie between the row of one image and the first row of the next
\* image on the same worksheet.
C9_SpacingBetweenImages ==
    run.status = "saved"
    => \A i \in 1..Len(run.sheets) :
         \A k \in 1..(Len(run.sheets[i].images) - 1) :
           FirstRow(run.sheets[i].images[k + 1])
             - run.sheets[i].images[k].anchor - 1 = run.form.image_spacing

\* C10: in 'Use existing Excel file' mode, when a target worksheet exists
\* in the uploaded workbook and has content, the first title or image is
\* placed below all rows that hold content and no existing cell is
\* overwritten.
C10_AppendBelowExistingContent ==
    (run.status = "saved" /\ run.form.use_existing_file)
    => \A i \in 1..Len(run.book) :
         (run.book[i].cells # {} /\ run.sheets[i].images # <<>>)
         => /\ FirstRow(run.sheets[i].images[1]) > max_row(run.book[i])
            /\ run.book[i].cells \subseteq run.sheets[i].cells

\* C11: a click on 'Download Excel File' is eventually followed by the
\* deletion of the output file by the delayed_delete thread started for it.
C11_DownloadLeadsToDelayedDelete ==
    (downloaded # 0)
    ~> (\E t \in threads : /\ t.file = downloaded
                           /\ t.state = "done"
                           /\ OutputFile(downloaded) \notin temp_files)

\* C12: after any page runs with an upload, a click on 'Clear' leaves no
\* upload directory, no uploaded Excel file and no output file of the
\* session in the temporary directory.
C12_ClearRemovesTransientFiles ==
    last_click = "clear" => temp_dirs = {} /\ temp_files = {}

\* C13: without a fixed size, resize_image returns for every image size
\* and every limit an image that fits the limits, is not larger than the
\* original, keeps the aspect ratio (both sides scaled by one factor, up to
\* the truncation to whole pixels) and is unchanged when it already fits.
C13_ResizeWithinLimitsKeepsRatio ==
    (/\ resize_out.state = "done"
     /\ resize_in.fixed_width = 0 /\ resize_in.fixed_height = 0)
    => /\ ~resize_out.raised
       /\ resize_out.width <= resize_in.max_width
       /\ resize_out.height <= resize_in.max_height
       /\ resize_out.width <= resize_in.width
       /\ resize_out.height <= resize_in.height
       /\ resize_out.width * resize_in.height
            - resize_out.height * resize_in.width <= resize_in.width
       /\ resize_out.height * resize_in.width
            - resize_out.width * resize_in.height <= resize_in.height
       /\ (resize_in.width <= resize_in.max_width
           /\ resize_in.height <= resize_in.max_height)
          => (resize_out.width = resize_in.width
              /\ resize_out.height = resize_in.height)

RECURSIVE SumLen(_)
SumLen(seqs) ==
    IF seqs = <<>> THEN 0 ELSE Len(Head(seqs)) + SumLen(Tail(seqs))

\* The images of the folders of the last run whose resize succeeds.
Readable ==
    {x \in UNION { { <<run.image_folders[k], f>> :
                       f \in Range(get_image_files(run.tree,
                                                   run.image_folders[k])) } :
                   k \in 1..Len(run.image_folders) } : x \notin run.bad}

\* C14: when resize_image fails for an image, the batch goes on: every
\* other image is placed, the failed image leaves neither a title cell nor
\* an image, and it does not move the row cursor of its sheet (the images
\* placed after it start where the cursor stood and keep the spacing).
C14_FailedImageIsSkipped ==
    (run.status = "saved" /\ run.bad # {} /\ run.image_folders # <<>>)
    => /\ SumLen([i \in 1..Len(run.sheets) |-> run.sheets[i].images])
            = Cardinality(Readable)
       /\ \A i \in 1..Len(run.sheets) :
            LET sheet == run.sheets[i] IN
            /\ \A c \in sheet.cells :
                 c.value.kind = "title"
                 => \E k \in 1..Len(sheet.images) :
                      /\ sheet.images[k].title_row = c.row
                      /\ sheet.images[k].title = c.value
            /\ (sheet.images # <<>>)
               => FirstRow(sheet.images[1])
                    = OrDefault(run.form.header_rows, DEFAULT_header_rows) + 1
            /\ \A k \in 1..(Len(sheet.images) - 1) :
                 FirstRow(sheet.images[k + 1]) - sheet.images[k].anchor - 1
                   = OrDefault(run.form.image_spacing, DEFAULT_spacing_rows)

C14_Witness ==
    /\ run.status = "saved"
    /\ run.bad # {}
    /\ Len(run.image_folders) = 2
    /\ Len(run.sheets) = 1
    /\ Len(run.sheets[1].images) = 2
    /\ run.sheets[1].images[1].title = TitleValue(2, PNG2.stem)

\* C15: a 'Send Request' click causes at most one outbound request; a
\* request that fails (timeout, connection error, other request exception)
\* shows its one error message and leaves the history as it was, and so
\* does a click with an empty URL or a URL without scheme or host.
C15_FailedRequestNotRetried ==
    [][click' # NoClick =>
        /\ Len(outbound') <= 1
        /\ network'.kind = "Timeout"
             => (response_area' = "Request timeout"
                 /\ request_history' = request_history)
        /\ network'.kind = "ConnectionError"
             => (response_area' = "Connection error"
                 /\ request_history' = request_history)
        /\ network'.kind = "RequestException"
             => (response_area' = "Request failed"
                 /\ request_history' = request_history)
        /\ (click'.url = <<>> \/ ~HasSchemeAndHost(click'.url))
             => (outbound' = <<>> /\ request_history' = request_history)
      ]_vars

C15_Witness ==
    /\ network.kind = "Timeout"
    /\ Len(outbound) = 1
    /\ response_area = "Request timeout"
    /\ Len(request_history) = 2

\* C20: every request that received an HTTP response adds exactly one
\* entry at the front of the history and nothing else does; the history
\* section lists the 10 newest entries and the number of the others;
\* 'Clear History' empties the history.
C20_HistoryNewestFirst ==
    [][IF click' = NoClick
       THEN request_history' = <<>> /\ history_panel' = [shown |-> <<>>, more |-> 0]
       ELSE /\ request_history' =
                IF network'.kind = "response"
                THEN <<[method |-> click'.method, url |-> click'.url,
                        status_code |-> network'.status]>> \o request_history
                ELSE request_history
            /\ Len(history_panel'.shown) = Min(10, Len(request_history'))
            /\ \A i \in 1..Len(history_panel'.shown) :
                 history_panel'.shown[i] = request_history'[i]
            /\ history_panel'.more = Max(Len(request_history') - 10, 0)
      ]_vars

C20_Witness ==
    /\ Len(request_history) = 11
    /\ history_panel.more = 1
    /\ Len(history_panel.shown) = 10
    /\ request_history[1].status_code # request_history[2].status_code

\* minutes between two times of day, the shorter way round the clock
MinutesApart(h1, m1, h2, m2) ==
    LET a == ((h1 * 60 + m1) - (h2 * 60 + m2)) % MINUTES_PER_DAY
    IN  Min(a, MINUTES_PER_DAY - a)

\* C16: a call of check_and_cleanup is inside the cleanup window exactly
\* when the current time is within 5 minutes before or after the cleanup
\* time, across hour and midnight boundaries.
C16_WindowFiveMinutesBeforeAndAfter ==
    cleanup_call.state = "done" =>
        (cleanup_call.in_time_window
           <=> MinutesApart(tm_hour(clock), tm_min(clock),
                            cleanup_call.cleanup_hour,
                            cleanup_call.cleanup_minute) <= 5)

\* C17: cleanup_old_temp_files is executed at most once per date; the
\* first in-window call of a date, and no other call, returns True, and
\* it writes that date to .last_cleanup_date; a call outside the window
\* returns False, deletes nothing and writes nothing.
C17_CleanupOncePerDate ==
    /\ \A d \in 0..MaxDate :
         /\ cleanup_log[d].executed <= 1
         /\ cleanup_log[d].in_window >= 1 => cleanup_log[d].executed = 1
    /\ cleanup_call.state = "done" =>
         /\ cleanup_call.returned
              <=> (cleanup_call.in_time_window /\ cleanup_call.nth = 1)
         /\ cleanup_call.returned <=> cleanup_call.executed
         /\ cleanup_call.returned =>
              (cleanup_call.wrote /\ cleanup_record_file = {date_str(clock)})
         /\ ~cleanup_call.in_time_window =>
              (~cleanup_call.returned /\ cleanup_call.deleted = {}
               /\ ~cleanup_call.wrote)

C17_Witness ==
    /\ cleanup_call.state = "done"
    /\ cleanup_call.in_time_window
    /\ cleanup_call.nth = 2
    /\ ~cleanup_call.returned
    /\ date_str(clock) = 1
    /\ cleanup_log[0].executed = 1
    /\ cleanup_log[1].executed = 1
    /\ cleanup_record_file = {1}

\* C19: on every worksheet each image added (with its title, if shown)
\* starts at a row strictly below the rows of the images added before it
\* on that sheet, whatever the case of the sheet name passed; and a call
\* that adds an image to one sheet leaves the cursor of every other sheet
\* as it was.
C19_CursorPerSheet ==
    /\ \A i \in 1..Len(excel_processor.sheets) :
         \A j, k \in 1..Len(excel_processor.sheets[i].images) :
           j < k => FirstRow(excel_processor.sheets[i].images[k])
                      > excel_processor.sheets[i].images[j].anchor
    /\ sheet_call.state = "added" =>
         \A i \in 1..Len(excel_processor.sheets) :
           excel_processor.sheets[i].title # sheet_call.resolved
           => cursor_get(excel_processor.current_row, excel_processor.sheets[i].title, 0)
                = cursor_get(sheet_call.before, excel_processor.sheets[i].title, 0)

\* how often x occurs in the sequence s
Count(s, x) == Cardinality({i \in DOMAIN s : s[i] = x})

SameBag(s, t) ==
    \A x \in Range(s) \cup Range(t) : Count(s, x) = Count(t, x)

\* What the rule for maps asks of one key.
KeyRule(obj1, obj2, key) ==
    IF key \notin keys(obj1) /\ key \notin keys(obj2) THEN <<>>
    ELSE IF key \notin keys(obj1) THEN <<key \o " [added]">>
    ELSE IF key \notin keys(obj2) THEN <<key \o " [deleted]">>
    ELSE IF PyEq(item(obj1, key), item(obj2, key)) THEN <<>>
    ELSE find_diff_in_json(item(obj1, key), item(obj2, key), key,
                           CHOOSE o \in KeyOrders : TRUE)

\* What the rule for arrays asks of the 0-based index i.
IndexRule(obj1, obj2, i) ==
    LET at == "[" \o ToString(i) \o "]" IN
    IF i >= Len(obj1.e) /\ i >= Len(obj2.e) THEN <<>>
    ELSE IF i >= Len(obj1.e) THEN <<at \o " [added]">>
    ELSE IF i >= Len(obj2.e) THEN <<at \o " [deleted]">>
    ELSE IF PyEq(obj1.e[i + 1], obj2.e[i + 1]) THEN <<>>
    ELSE find_diff_in_json(obj1.e[i + 1], obj2.e[i + 1], at,
                           CHOOSE o \in KeyOrders : TRUE)

RECURSIVE Flatten(_, _)
Flatten(f, n) == IF n = 0 THEN <<>> ELSE Flatten(f, n - 1) \o f[n]

ApplicableErrors(form) ==
    (IF upload.kind = "none" /\ session.uploaded_files_dir \notin temp_dirs
     THEN {"Please upload files first"} ELSE {})
    \cup
    (IF form.use_existing_file /\ ~excel_upload.present
        /\ ~session.excel_existing_file
     THEN {"Please upload an existing Excel file"} ELSE {})

OutputFiles(files) == {f \in files : f.kind = "output"}

C22_SheetNameRequirements ==
    /\ sanitize_out.state \in {"done", "twice"} =>
         /\ sanitize_out.name # <<>>
         /\ Len(sanitize_out.name) <= 31
         /\ \A i \in 1..Len(sanitize_out.name) :
              sanitize_out.name[i] \notin {"\\", "/", "*", "?", ":", "[", "]"}
         /\ sanitize_out.name[1] # " "
         /\ sanitize_out.name[Len(sanitize_out.name)] # " "
    /\ sanitize_out.state = "twice" => sanitize_out.again = sanitize_out.name

C22_Witness ==
    /\ sanitize_out.state = "twice"
    /\ Len(sanitize_in) > 31
    /\ sanitize_in[1] = " "
    /\ sanitize_in[31] = " "
    /\ \E i \in 1..Len(sanitize_in) : sanitize_in[i] = "/"
    /\ Len(sanitize_out.name) < 31

====
